---- MODULE Spec2Model ----
(***************************************************************************)
(* DCRNN sequence-to-sequence model of torchts/nn/models/dcrnn.py.         *)
(*                                                                         *)
(* Tensors are symbolic terms <<op, dtype, batch, width, operands...>>:    *)
(* two tensors are equal exactly when they were computed the same way from *)
(* the same operands, so the recurrent cell and the projection layer stay  *)
(* uninterpreted while every data-flow decision of the module is explicit. *)
(* A stacked hidden state is the sequence of its per-layer slices.         *)
(***************************************************************************)
EXTENDS Integers, Sequences, FiniteSets, TLC

\* ---------------------------------------------------------------- bounds
MaxRnnLayers == 2
MaxSeqLen == 2
MaxHorizon == 2
MaxClDecaySteps == 2
MaxBatchesSeen == 1
MaxParamVersion == 1
\* largest batches_seen the sampling threshold is tabulated for
MaxThresholdArg == 4
\* fixed-point scale of the real numbers in [0, 1] and number of series terms
Scale == 1000
ExpTerms == 12

\* ------------------------------------------------------ program constants
DefaultMaxDiffusionStep == 2
DefaultClDecaySteps == 1000
DefaultInputDim == 1
DefaultOutputDim == 1
ClipMaxNorm == 5

\* node counts and hidden-unit widths a model is constructed with
NumNodesChoices == {1, 2}
RnnUnitChoices == {3}
\* <<dtype, batch size>> of the tensors a caller passes
TensorKinds == {<<"float32", 1>>, <<"float64", 2>>}
\* dtype of a freshly created torch.zeros tensor
DefaultDType == "float32"
\* Python's None for an absent tensor / tensor sequence
None == <<>>
\* Python's None for an absent batches_seen
NoBatchesSeen == -1

\* --------------------------------------------------------------- tensors
DType(x) == x[2]
BatchSize(x) == x[3]
\* dtype and batch dimension of a stacked (layers, batch, width) tensor
StackDType(hs) == DType(hs[1])
StackBatch(hs) == BatchSize(hs[1])

TorchZeros(batch, width) == <<"zeros", DefaultDType, batch, width>>
TypeAs(x, dtype) == [x EXCEPT ![2] = dtype]

\* the adjacency matrix handed to the constructor
AdjMx == "adj_mx"

\* ------------------------------------------------------------ construction
\* the keyword options of a constructor call, cl_decay_steps drawn from decays
KwargsSpace(decays) ==
    [num_nodes : NumNodesChoices,
     rnn_units : RnnUnitChoices,
     num_rnn_layers : 1..MaxRnnLayers,
     seq_len : 1..MaxSeqLen,
     horizon : 1..MaxHorizon,
     cl_decay_steps : decays,
     use_curriculum_learning : BOOLEAN]

HiddenStateSize_sum(num_nodes, rnn_units) == num_nodes + rnn_units
HiddenStateSize(num_nodes, rnn_units) == num_nodes * rnn_units

Seq2SeqAttrs(adj, kw) ==
    [adj_mx |-> adj,
     max_diffusion_step |-> DefaultMaxDiffusionStep,
     cl_decay_steps |-> kw.cl_decay_steps,
     filter_type |-> "laplacian",
     num_nodes |-> kw.num_nodes,
     num_rnn_layers |-> kw.num_rnn_layers,
     rnn_units |-> kw.rnn_units,
     use_gc_for_ru |-> TRUE,
     hidden_state_size |-> HiddenStateSize(kw.num_nodes, kw.rnn_units)]

EncoderInit(adj, kw) ==
    [attrs |-> Seq2SeqAttrs(adj, kw),
     input_dim |-> DefaultInputDim,
     seq_len |-> kw.seq_len]

DecoderInit(adj, kw) ==
    [attrs |-> Seq2SeqAttrs(adj, kw),
     output_dim |-> DefaultOutputDim,
     horizon |-> kw.horizon]

DCRNNInit(adj, kw) ==
    [attrs |-> Seq2SeqAttrs(adj, kw),
     cl_decay_steps |-> kw.cl_decay_steps,
     use_curriculum_learning |-> kw.use_curriculum_learning]

VARIABLES
    dcrnn,                  \* the DCRNN object's own attributes
    encoder_model,          \* its Encoder
    decoder_model,          \* its Decoder
    training,               \* nn.Module.training
    params,                 \* version of the learnable parameters
    optimizer,              \* what configure_optimizers returned last
    grad_norm,              \* global norm of the parameters' .grad
    trainer_pc,             \* where the external trainer's iteration stands
    pc,                     \* position of the forward pass
    caller,                 \* who called forward
    inputs, labels, batches_seen,   \* forward's arguments
    t,                      \* loop index of encoder() / decoder()
    encoder_output,         \* the per-step output encoder() discards
    encoder_hidden_state,
    decoder_hidden_state,
    decoder_input,
    outputs,
    threshold,              \* last value of _compute_sampling_threshold, or -1
    enc_trace,              \* history: <<input, hidden_state>> of each Encoder call
    dec_trace,              \* history: <<input, hidden_state>> of each Decoder call
    draw,                   \* history: the uniform draw of the latest decoder step, -1 if none
    last_result             \* how the latest finished forward call ended

config == <<dcrnn, encoder_model, decoder_model>>
trainer == <<training, params, optimizer, grad_norm, trainer_pc>>
arguments == <<inputs, labels, batches_seen>>
locals == <<t, encoder_output, encoder_hidden_state, decoder_hidden_state,
            decoder_input, outputs, threshold>>
history == <<enc_trace, dec_trace, draw>>
vars == <<config, trainer, pc, caller, arguments, locals, history, last_result>>

\* ------------------------------------------------- external collaborators
\* DCGRU cell number layer_num of the encoder's or the decoder's stack:
\* forward(layer_input, layer_hidden_state) -> next_hidden_state of shape
\* (batch, hidden_state_size), computed with the current parameters.
DCGRU(stack, layer_num, size, layer_input, layer_hidden_state) ==
    <<"dcgru", DType(layer_input), BatchSize(layer_input), size,
      stack, layer_num, params, layer_input, layer_hidden_state>>

\* nn.Linear(rnn_units, output_dim) applied per node, flattened back to
\* (batch, num_nodes * output_dim).
ProjectionLayer(output) ==
    <<"linear", DType(output), BatchSize(output),
      decoder_model.attrs.num_nodes * decoder_model.output_dim, params, output>>

\* ----------------------------------------------------- Encoder / Decoder
InitialHiddenState_untyped(step_input) ==
    [k \in 1..encoder_model.attrs.num_rnn_layers |->
        TorchZeros(BatchSize(step_input), encoder_model.attrs.hidden_state_size)]
\* hidden_state is None: zeros of (num_rnn_layers, batch, hidden_state_size),
\* type_as(inputs)
InitialHiddenState(step_input) ==
    [k \in 1..encoder_model.attrs.num_rnn_layers |->
        TypeAs(TorchZeros(BatchSize(step_input), encoder_model.attrs.hidden_state_size),
               DType(step_input))]

DcgruLayerCall_firstSlice(stack, size, layer_num, output, hidden_state) ==
    DCGRU(stack, layer_num, size, output, hidden_state[1])
\* next_hidden_state = dcgru_layer(output, hidden_state[layer_num])
DcgruLayerCall(stack, size, layer_num, output, hidden_state) ==
    DCGRU(stack, layer_num, size, output, hidden_state[layer_num + 1])

\* for layer_num, dcgru_layer in enumerate(self.dcgru_layers): ...
\* yields <<output, hidden_states>> after the layers layer_num .. layers-1
RECURSIVE LayerLoop(_, _, _, _, _, _, _)
LayerLoop(stack, size, layers, layer_num, output, hidden_state, hidden_states) ==
    IF layer_num >= layers
    THEN <<output, hidden_states>>
    ELSE LET next_hidden_state ==
                 DcgruLayerCall(stack, size, layer_num, output, hidden_state)
         IN  LayerLoop(stack, size, layers, layer_num + 1, next_hidden_state,
                       hidden_state, Append(hidden_states, next_hidden_state))

\* Encoder.forward(inputs, hidden_state=None) -> <<output, stacked hidden states>>
EncoderForward(step_input, hidden_state) ==
    LET hs == IF hidden_state = None THEN InitialHiddenState(step_input)
              ELSE hidden_state
    IN  LayerLoop("encoder", encoder_model.attrs.hidden_state_size,
                  encoder_model.attrs.num_rnn_layers, 0, step_input, hs, <<>>)

\* Decoder.forward(inputs, hidden_state) -> <<projected output, stacked hidden states>>
DecoderForward(step_input, hidden_state) ==
    LET r == LayerLoop("decoder", decoder_model.attrs.hidden_state_size,
                       decoder_model.attrs.num_rnn_layers, 0, step_input,
                       hidden_state, <<>>)
    IN  <<ProjectionLayer(r[1]), r[2]>>

\* ------------------------------------------------------ sampling threshold
\* term k of the series of exp(num / den), in units of 1 / Scale
RECURSIVE ExpTerm(_, _, _)
ExpTerm(num, den, k) ==
    IF k = 0 THEN Scale ELSE (ExpTerm(num, den, k - 1) * num) \div (den * k)

RECURSIVE ExpSum(_, _, _)
ExpSum(num, den, k) ==
    IF k = 0 THEN ExpTerm(num, den, 0)
    ELSE ExpSum(num, den, k - 1) + ExpTerm(num, den, k)

\* np.exp(num / den), in units of 1 / Scale
Exp(num, den) == ExpSum(num, den, ExpTerms)

ThresholdOf_inverted(cl_decay_steps, seen) ==
    (Exp(seen, cl_decay_steps) * Scale)
        \div (cl_decay_steps * Scale + Exp(seen, cl_decay_steps))
\* cl_decay_steps / (cl_decay_steps + np.exp(batches_seen / cl_decay_steps)),
\* in units of 1 / Scale
ThresholdOf(cl_decay_steps, seen) ==
    (cl_decay_steps * Scale * Scale)
        \div (cl_decay_steps * Scale + Exp(seen, cl_decay_steps))

\* DCRNN._compute_sampling_threshold(batches_seen)
ComputeSamplingThreshold(seen) == ThresholdOf(dcrnn.cl_decay_steps, seen)

\* values np.random.uniform(0, 1) is let to take around a threshold thr
Draws(thr) == {c \in {0, thr - 1, thr, Scale - 1} : 0 <= c /\ c < Scale}

\* ---------------------------------------------------------- DCRNN.decoder
TeacherForcingActive_noFlag == training
TeacherForcingActive_noMode == dcrnn.use_curriculum_learning
\* if self.training and self.use_curriculum_learning:
TeacherForcingActive == training /\ dcrnn.use_curriculum_learning

TeacherForced_orEqual(c, thr) == c <= thr
\* if c < self._compute_sampling_threshold(batches_seen):
TeacherForced(c, thr) == c < thr

EncoderRange_short == 0..(encoder_model.seq_len - 2)
\* range(self.encoder_model.seq_len)
EncoderRange == 0..(encoder_model.seq_len - 1)

DecoderRange_long == 0..decoder_model.horizon
\* range(self.decoder_model.horizon)
DecoderRange == 0..(decoder_model.horizon - 1)

GoSymbol_hiddenWidth(hidden_state) ==
    TypeAs(TorchZeros(StackBatch(hidden_state), dcrnn.attrs.hidden_state_size),
           StackDType(hidden_state))
\* go_symbol = torch.zeros((batch_size, num_nodes * output_dim)).type_as(hidden)
GoSymbol(hidden_state) ==
    TypeAs(TorchZeros(StackBatch(hidden_state),
                      dcrnn.attrs.num_nodes * decoder_model.output_dim),
           StackDType(hidden_state))

\* ------------------------------------------------------------ call inputs
\* an input sequence of shape (seq_len, batch, num_nodes * input_dim)
InputSequence(dtype, batch) ==
    [i \in 1..encoder_model.seq_len |->
        <<"input", dtype, batch,
          dcrnn.attrs.num_nodes * encoder_model.input_dim, i - 1>>]

\* a label sequence of shape (horizon, batch, num_nodes * output_dim)
LabelSequence(dtype, batch) ==
    [i \in 1..decoder_model.horizon |->
        <<"label", dtype, batch,
          dcrnn.attrs.num_nodes * decoder_model.output_dim, i - 1>>]

\* torch.nn.utils.clip_grad_norm_(self.parameters(), 5)
ClipGradNorm(norm) == IF norm > ClipMaxNorm THEN ClipMaxNorm ELSE norm

\* gradient norms a backward pass may produce
GradNorms == {ClipMaxNorm - 1, ClipMaxNorm + 1}

\* no optimizer has been configured yet
NoOptimizer == [optimizer |-> "none", scheduler |-> "none"]

\* ----------------------------------------------------------------- states
NoCall ==
    /\ pc' = "idle"
    /\ caller' = "none"
    /\ inputs' = None
    /\ labels' = None
    /\ batches_seen' = NoBatchesSeen
    /\ t' = 0
    /\ encoder_output' = None
    /\ encoder_hidden_state' = None
    /\ decoder_hidden_state' = None
    /\ decoder_input' = None
    /\ outputs' = <<>>
    /\ threshold' = -1
    /\ enc_trace' = <<>>
    /\ dec_trace' = <<>>
    /\ draw' = -1

\* an exception leaves forward (and training_step): nothing of the pass is kept
Raise ==
    /\ NoCall
    /\ last_result' = "raised"
    /\ trainer_pc' = "idle"
    /\ UNCHANGED <<config, training, params, optimizer, grad_norm>>

\* the state right after DCRNN(adj_mx, scaler, **kw), kw in kwargs
Constructed(kwargs) ==
    /\ \E kw \in kwargs :
          /\ dcrnn = DCRNNInit(AdjMx, kw)
          /\ encoder_model = EncoderInit(AdjMx, kw)
          /\ decoder_model = DecoderInit(AdjMx, kw)
    /\ training = TRUE
    /\ params = 0
    /\ optimizer = NoOptimizer
    /\ grad_norm = 0
    /\ trainer_pc = "idle"
    /\ pc = "idle"
    /\ caller = "none"
    /\ inputs = None
    /\ labels = None
    /\ batches_seen = NoBatchesSeen
    /\ t = 0
    /\ encoder_output = None
    /\ encoder_hidden_state = None
    /\ decoder_hidden_state = None
    /\ decoder_input = None
    /\ outputs = <<>>
    /\ threshold = -1
    /\ enc_trace = <<>>
    /\ dec_trace = <<>>
    /\ draw = -1
    /\ last_result = "ok"

\* models constructed with the default cl_decay_steps
Init == Constructed(KwargsSpace({DefaultClDecaySteps}))

Idle == pc = "idle" /\ trainer_pc = "idle"

\* entering forward -> encoder(): encoder_hidden_state = None, t = 0
EnterForward(who, x, y, seen) ==
    /\ pc' = "ENCODING"
    /\ caller' = who
    /\ inputs' = x
    /\ labels' = y
    /\ batches_seen' = seen
    /\ t' = 0
    /\ encoder_hidden_state' = None
    /\ UNCHANGED <<encoder_output, decoder_hidden_state, decoder_input, outputs,
                   threshold, history, last_result>>

\* ---------------------------------------------------------------- actions
\* model.train() / model.eval()
SetTraining(mode) ==
    /\ Idle
    /\ training # mode
    /\ training' = mode
    /\ UNCHANGED <<config, params, optimizer, grad_norm, trainer_pc, pc, caller,
                   arguments, locals, history, last_result>>

\* DCRNN.configure_optimizers(): Adam(lr=0.01, eps=1e-3) with MultiStepLR
ConfigureOptimizers ==
    /\ Idle
    /\ optimizer' = [optimizer |-> "Adam", scheduler |-> "MultiStepLR"]
    /\ UNCHANGED <<config, training, params, grad_norm, trainer_pc, pc, caller,
                   arguments, locals, history, last_result>>

\* a direct call model(inputs, labels, batches_seen)
Forward ==
    /\ Idle
    /\ \E kind \in TensorKinds, with_labels \in BOOLEAN,
          seen \in {NoBatchesSeen} \cup 0..MaxBatchesSeen :
          EnterForward("user", InputSequence(kind[1], kind[2]),
                       IF with_labels THEN LabelSequence(kind[1], kind[2]) ELSE None,
                       seen)
    /\ UNCHANGED <<config, trainer>>

\* DCRNN.training_step(batch, batch_idx) up to pred = self(x, y, batch_idx);
\* the trainer has put the model in training mode and configured the optimizer
TrainingStep ==
    /\ Idle
    /\ training
    /\ optimizer # NoOptimizer
    /\ params < MaxParamVersion
    /\ \E kind \in TensorKinds :
          \* the trainer numbers its batches: batch_idx counts the steps taken
          EnterForward("training_step", InputSequence(kind[1], kind[2]),
                       LabelSequence(kind[1], kind[2]), params)
    /\ UNCHANGED <<config, trainer>>

\* one iteration of the loop of DCRNN.encoder
EncoderStep ==
    /\ pc = "ENCODING"
    /\ t \in EncoderRange
    /\ LET r == EncoderForward(inputs[t + 1], encoder_hidden_state)
       IN  /\ encoder_output' = r[1]
           /\ encoder_hidden_state' = r[2]
    /\ enc_trace' = Append(enc_trace, <<inputs[t + 1], encoder_hidden_state>>)
    /\ t' = t + 1
    /\ UNCHANGED <<config, trainer, pc, caller, arguments, decoder_hidden_state,
                   decoder_input, outputs, threshold, dec_trace, draw,
                   last_result>>

\* encoder() returns; decoder() sets up its go symbol and hidden state
EnterDecoder ==
    /\ pc = "ENCODING"
    /\ t \notin EncoderRange
    /\ IF encoder_hidden_state = None
       THEN Raise   \* None has no size()
       ELSE /\ decoder_hidden_state' = encoder_hidden_state
            /\ decoder_input' = GoSymbol(encoder_hidden_state)
            /\ outputs' = <<>>
            /\ t' = 0
            /\ pc' = "DECODING"
            /\ UNCHANGED <<config, trainer, caller, arguments, encoder_output,
                           encoder_hidden_state, threshold, history, last_result>>

\* one iteration of the loop of DCRNN.decoder
DecoderStep ==
    /\ pc = "DECODING"
    /\ t \in DecoderRange
    /\ LET r == DecoderForward(decoder_input, decoder_hidden_state)
           decoder_output == r[1]
           known == batches_seen # NoBatchesSeen
           thr == IF known THEN ComputeSamplingThreshold(batches_seen) ELSE -1
       IN  \E c \in IF TeacherForcingActive
                    THEN (IF known THEN Draws(thr) ELSE {0})
                    ELSE {-1} :
              IF \/ TeacherForcingActive /\ ~known             \* None / int
                 \/ /\ TeacherForcingActive
                    /\ TeacherForced(c, thr)
                    /\ labels = None                            \* None[t]
              THEN Raise
              ELSE /\ decoder_hidden_state' = r[2]
                   /\ outputs' = Append(outputs, decoder_output)
                   /\ dec_trace' = Append(dec_trace,
                                          <<decoder_input, decoder_hidden_state>>)
                   /\ draw' = c
                   /\ threshold' = IF TeacherForcingActive THEN thr ELSE threshold
                   /\ decoder_input' =
                          IF TeacherForcingActive /\ TeacherForced(c, thr)
                          THEN labels[t + 1]
                          ELSE decoder_output
                   /\ t' = t + 1
                   /\ UNCHANGED <<config, trainer, pc, caller, arguments,
                                  encoder_output, encoder_hidden_state, enc_trace,
                                  last_result>>

\* decoder() stacks its outputs and forward returns them
ExitDecoder ==
    /\ pc = "DECODING"
    /\ t \notin DecoderRange
    /\ pc' = "DONE"
    /\ UNCHANGED <<config, trainer, caller, arguments, locals, history, last_result>>

\* forward's caller receives the outputs
ForwardReturn ==
    /\ pc = "DONE"
    /\ caller = "user"
    /\ NoCall
    /\ last_result' = "ok"
    /\ UNCHANGED <<config, trainer>>

\* training_step after forward: loss, clip_grad_norm_, return loss
TrainingStepReturn ==
    /\ pc = "DONE"
    /\ caller = "training_step"
    /\ NoCall
    /\ last_result' = "ok"
    /\ grad_norm' = ClipGradNorm(grad_norm)
    /\ trainer_pc' = "backward"
    /\ UNCHANGED <<config, training, params, optimizer>>

\* the trainer computes the gradients of the returned loss
Backward ==
    /\ trainer_pc = "backward"
    /\ \E g \in GradNorms : grad_norm' = g
    /\ trainer_pc' = "optimizer_step"
    /\ UNCHANGED <<config, training, params, optimizer, pc, caller, arguments,
                   locals, history, last_result>>

\* the trainer's optimizer consumes the gradients and updates the parameters
OptimizerStep ==
    /\ trainer_pc = "optimizer_step"
    /\ params' = params + 1
    /\ trainer_pc' = "idle"
    /\ UNCHANGED <<config, training, optimizer, grad_norm, pc, caller, arguments,
                   locals, history, last_result>>

Next ==
    \/ SetTraining(TRUE)
    \/ SetTraining(FALSE)
    \/ ConfigureOptimizers
    \/ Forward
    \/ TrainingStep
    \/ EncoderStep
    \/ EnterDecoder
    \/ DecoderStep
    \/ ExitDecoder
    \/ ForwardReturn
    \/ TrainingStepReturn
    \/ Backward
    \/ OptimizerStep

Spec == Init /\ [][Next]_vars

\* ------------------------------------------- the sampling threshold alone
\* models constructed with a small or the default cl_decay_steps
InitThreshold ==
    Constructed(KwargsSpace(1..MaxClDecaySteps \cup {DefaultClDecaySteps}))

\* a call of DCRNN._compute_sampling_threshold(batches_seen)
ComputeThreshold ==
    /\ Idle
    /\ \E seen \in 0..MaxThresholdArg :
          /\ batches_seen' = seen
          /\ threshold' = ComputeSamplingThreshold(seen)
    /\ UNCHANGED <<config, trainer, pc, caller, inputs, labels, t, encoder_output,
                   encoder_hidden_state, decoder_hidden_state, decoder_input,
                   outputs, history, last_result>>

NextThreshold == ComputeThreshold

SpecThreshold == InitThreshold /\ [][NextThreshold]_vars

\* ------------------------------------------------------------------ claims
\* what the Decoder returns as output when run on record i of dec_trace
DecoderOutputAt(i) == DecoderForward(dec_trace[i][1], dec_trace[i][2])[1]

\* C1: a finished forward call has run the Encoder exactly seq_len times, on
\* inputs[0], ..., inputs[seq_len-1] in that order, and the Decoder exactly
\* horizon times; the returned sequence has length horizon and its element t
\* is the Decoder's output at decoding step t; no call ever runs more steps.
C1_StepCounts ==
    /\ Len(enc_trace) <= encoder_model.seq_len
    /\ Len(dec_trace) <= decoder_model.horizon
    /\ pc = "DONE" =>
          /\ Len(enc_trace) = encoder_model.seq_len
          /\ \A i \in 1..Len(enc_trace) : enc_trace[i][1] = inputs[i]
          /\ Len(dec_trace) = decoder_model.horizon
          /\ Len(outputs) = decoder_model.horizon
          /\ \A i \in 1..Len(outputs) : outputs[i] = DecoderOutputAt(i)

C1_Witness ==
    /\ pc = "DONE"
    /\ encoder_model.seq_len = MaxSeqLen
    /\ decoder_model.horizon = MaxHorizon
    /\ training
    /\ dcrnn.use_curriculum_learning
    /\ Len(outputs) = MaxHorizon

\* C2: with use_curriculum_learning = False every decoder step after the first
\* is fed the Decoder's own previous output, in training and in inference mode
\* and whatever labels and batches_seen are; no label is ever a decoder input
\* and no random draw is made.
C2_NoCurriculum ==
    ~dcrnn.use_curriculum_learning =>
        /\ draw = -1
        /\ \A i \in 1..Len(dec_trace) :
              /\ dec_trace[i][1][1] # "label"
              /\ i > 1 => dec_trace[i][1] = outputs[i - 1]
        /\ (pc = "DECODING" /\ t >= 1) =>
              /\ decoder_input = outputs[t]
              /\ decoder_input[1] # "label"

C2_Witness ==
    /\ ~dcrnn.use_curriculum_learning
    /\ training
    /\ labels # None
    /\ batches_seen # NoBatchesSeen
    /\ pc = "DONE"
    /\ Len(dec_trace) >= 2

\* an explicit all-zero hidden state of shape (num_rnn_layers, batch,
\* hidden_state_size) with the numeric type of the step input
ExplicitZeroHiddenState(step_input) ==
    [k \in 1..encoder_model.attrs.num_rnn_layers |->
        <<"zeros", DType(step_input), BatchSize(step_input),
          encoder_model.attrs.num_nodes * encoder_model.attrs.rnn_units>>]

\* C3: the Encoder step that was called with hidden_state = None returned the
\* output and the hidden state that Encoder.forward returns on the same input
\* with an explicit all-zero hidden state of the right shape.
C3_NoneIsZeros ==
    (pc = "ENCODING" /\ t = 1) =>
        /\ enc_trace[1][2] = None
        /\ <<encoder_output, encoder_hidden_state>>
              = EncoderForward(inputs[1], ExplicitZeroHiddenState(inputs[1]))

C3_Witness ==
    /\ pc = "ENCODING"
    /\ t = 1
    /\ DType(inputs[1]) # DefaultDType
    /\ encoder_model.attrs.num_rnn_layers = MaxRnnLayers
    /\ enc_trace[1][2] = None

\* the decoder input of the step after the latest one is a label
NextInputIsLabel == labels # None /\ decoder_input = labels[t]

\* C5: after decoding step t-1 the input of step t is labels[t-1] exactly when
\* the model is training, curriculum learning is on and the step's draw is
\* strictly below the sampling threshold for batches_seen; otherwise it is the
\* Decoder's output of step t-1; the recorded output of a step is the
\* Decoder's output whichever input follows.
C5_TeacherForcing ==
    /\ (pc = "DECODING" /\ t >= 1 /\ t \in DecoderRange) =>
          LET forced == /\ training
                        /\ dcrnn.use_curriculum_learning
                        /\ draw < ComputeSamplingThreshold(batches_seen)
          IN  /\ NextInputIsLabel <=> forced
              /\ ~forced => decoder_input = outputs[t]
    /\ \A i \in 1..Len(dec_trace) :
          /\ outputs[i] = DecoderOutputAt(i)
          /\ i > 1 => \/ dec_trace[i][1] = outputs[i - 1]
                      \/ labels # None /\ dec_trace[i][1] = labels[i - 1]

C5_Witness ==
    /\ pc = "DECODING"
    /\ t >= 1
    /\ t \in DecoderRange
    /\ training
    /\ dcrnn.use_curriculum_learning
    /\ draw = ComputeSamplingThreshold(batches_seen) - 1
    /\ NextInputIsLabel

\* the order of the phases of one forward call; a call that raises goes idle
PhaseOrder ==
    {<<"idle", "ENCODING">>, <<"ENCODING", "DECODING">>, <<"DECODING", "DONE">>,
     <<"DONE", "idle">>, <<"ENCODING", "idle">>, <<"DECODING", "idle">>}

\* once a Decoder step has run: every Encoder step has run, the first Decoder
\* step got the zero go tensor of shape (batch, nodes x output_dim) and the
\* hidden state the Encoder returned at its last step
C4_FirstDecoderStep ==
    Len(dec_trace) >= 1 =>
        /\ Len(enc_trace) = encoder_model.seq_len
        /\ dec_trace[1][1] =
              <<"zeros", DType(inputs[1]), BatchSize(inputs[1]),
                dcrnn.attrs.num_nodes * decoder_model.output_dim>>
        /\ dec_trace[1][2] =
              EncoderForward(enc_trace[Len(enc_trace)][1],
                             enc_trace[Len(enc_trace)][2])[2]

C4_Step ==
    /\ pc' # pc => <<pc, pc'>> \in PhaseOrder
    /\ Len(dec_trace') > Len(dec_trace) => pc = "DECODING" /\ pc' = "DECODING"
    /\ Len(enc_trace') > Len(enc_trace) =>
          pc = "ENCODING" /\ pc' = "ENCODING" /\ Len(dec_trace) = 0

\* C4: a forward call goes through ENCODING, DECODING, DONE in that order: no
\* Decoder step runs before the last Encoder step, no Encoder step after the
\* first Decoder step, and the first Decoder step runs on the zero go tensor
\* with exactly the hidden state the Encoder returned at its last step.
C4_Phases == [] C4_FirstDecoderStep /\ [][C4_Step]_vars

C4_Witness ==
    /\ pc = "DONE"
    /\ encoder_model.seq_len = MaxSeqLen
    /\ encoder_model.attrs.num_rnn_layers = MaxRnnLayers
    /\ DType(inputs[1]) # DefaultDType
    /\ Len(dec_trace) >= 1

\* C6: the optimizer only steps on gradients whose global norm has been
\* clipped to 5.0.
C6_ClippedBeforeOptimizerStep ==
    trainer_pc = "optimizer_step" => grad_norm <= ClipMaxNorm

C8_Sizes ==
    /\ dcrnn.attrs.hidden_state_size = dcrnn.attrs.num_nodes * dcrnn.attrs.rnn_units
    /\ encoder_model.attrs.hidden_state_size
          = encoder_model.attrs.num_nodes * encoder_model.attrs.rnn_units
    /\ decoder_model.attrs.hidden_state_size
          = decoder_model.attrs.num_nodes * decoder_model.attrs.rnn_units
    /\ encoder_model.attrs.hidden_state_size = dcrnn.attrs.hidden_state_size
    /\ decoder_model.attrs.hidden_state_size = dcrnn.attrs.hidden_state_size

C8_Step ==
    /\ dcrnn'.attrs.hidden_state_size = dcrnn.attrs.hidden_state_size
    /\ encoder_model'.attrs.hidden_state_size = encoder_model.attrs.hidden_state_size
    /\ decoder_model'.attrs.hidden_state_size = decoder_model.attrs.hidden_state_size

\* C8: hidden_state_size = num_nodes * rnn_units on the DCRNN, its Encoder and
\* its Decoder, the three agree, and no step of any call changes it.
C8_HiddenStateSize == [] C8_Sizes /\ [][C8_Step]_vars

C8_Witness ==
    /\ optimizer # NoOptimizer
    /\ params >= 1
    /\ pc = "DONE"
    /\ caller = "user"
    /\ dcrnn.attrs.num_nodes = 2

\* the hidden state after the Encoder has consumed xs[i..] starting from h
RECURSIVE EncodeFrom(_, _, _)
EncodeFrom(xs, i, h) ==
    IF i > Len(xs) THEN h ELSE EncodeFrom(xs, i + 1, EncoderForward(xs[i], h)[2])

\* n more decoder outputs when every step is fed the previous step's output
RECURSIVE DecodeFrom(_, _, _, _)
DecodeFrom(n, x, h, outs) ==
    IF n = 0 THEN outs
    ELSE LET r == DecoderForward(x, h)
         IN  DecodeFrom(n - 1, r[1], r[2], Append(outs, r[1]))

\* the output sequence as a function of the input sequence and the parameters
InferenceOutputs(xs) ==
    DecodeFrom(decoder_model.horizon,
               <<"zeros", DType(xs[1]), BatchSize(xs[1]),
                 dcrnn.attrs.num_nodes * decoder_model.output_dim>>,
               EncodeFrom(xs, 1, None), <<>>)

C9_FreshStart ==
    /\ Len(enc_trace) >= 1 => enc_trace[1][2] = None
    /\ (pc = "DONE" /\ ~training) => outputs = InferenceOutputs(inputs)

C9_Step ==
    (pc # "idle" \/ pc' # "idle") =>
        /\ params' = params
        /\ config' = config

\* C9: whatever calls came before, completed or raised, the first Encoder step
\* of a forward call gets no hidden state; no step of forward or training_step
\* changes the parameters, the graph or the configuration; in inference mode
\* the returned outputs are a function of the inputs and the parameters alone.
C9_NoStateSurvives == [] C9_FreshStart /\ [][C9_Step]_vars

C9_Witness ==
    /\ last_result = "raised"
    /\ params >= 1
    /\ ~training
    /\ dcrnn.use_curriculum_learning
    /\ labels # None
    /\ pc = "DONE"
    /\ Len(outputs) >= 2

\* slice k of new is layer k-1's cell applied to the layer below (the step
\* input for the first layer) and slice k of old
LayerOrder(stack, size, x, old, new) ==
    /\ Len(new) = dcrnn.attrs.num_rnn_layers
    /\ \A k \in 1..Len(new) :
          new[k] = DCGRU(stack, k - 1, size, IF k = 1 THEN x ELSE new[k - 1], old[k])

C10_Step ==
    /\ Len(enc_trace') > Len(enc_trace) =>
          /\ LayerOrder("encoder", encoder_model.attrs.hidden_state_size,
                        inputs[t + 1],
                        IF encoder_hidden_state = None
                        THEN ExplicitZeroHiddenState(inputs[t + 1])
                        ELSE encoder_hidden_state,
                        encoder_hidden_state')
          /\ encoder_output' = encoder_hidden_state'[Len(encoder_hidden_state')]
    /\ Len(dec_trace') > Len(dec_trace) =>
          /\ LayerOrder("decoder", decoder_model.attrs.hidden_state_size,
                        decoder_input, decoder_hidden_state, decoder_hidden_state')
          /\ outputs'[Len(outputs')]
                = ProjectionLayer(decoder_hidden_state'[Len(decoder_hidden_state')])

\* C10: one Encoder or Decoder call applies the cells in layer order: layer 0
\* gets the step input, layer k > 0 the state layer k-1 just produced, each
\* with slice k of the incoming hidden state; the returned hidden state has
\* one slice per layer, and the output is the top layer's new state (for the
\* Decoder its projection).
C10_LayerOrder == [][C10_Step]_vars

C10_Witness ==
    /\ dcrnn.attrs.num_rnn_layers = MaxRnnLayers
    /\ Len(enc_trace) = MaxSeqLen
    /\ Len(dec_trace) >= 2
    /\ MaxRnnLayers >= 2

\* the threshold does not grow with batches_seen, and it stays at or below
\* d*d / (d*d + d + batches_seen), d = cl_decay_steps, which tends to 0
C7_DecreasingToZero ==
    LET d == dcrnn.cl_decay_steps
    IN  /\ \A b \in 0..batches_seen : ThresholdOf(d, b) >= threshold
        /\ threshold * (d * d + d + batches_seen) <= d * d * Scale
        /\ threshold >= 0

\* C7 (as amended): for a fixed cl_decay_steps = d >= 1 the sampling threshold
\* is non-increasing in batches_seen >= 0, is at most d*d / (d*d + d +
\* batches_seen) and so approaches 0 as batches_seen grows; at batches_seen = 0
\* it is d / (d + 1), which is its limit as batches_seen goes to 0 and is below 1.
C7_ThresholdShape ==
    threshold # -1 =>
        /\ C7_DecreasingToZero
        /\ batches_seen = 0 =>
              LET d == dcrnn.cl_decay_steps
              IN  /\ threshold * (d + 1) <= d * Scale
                  /\ (threshold + 1) * (d + 1) > d * Scale
                  /\ threshold < Scale

C7_Witness ==
    /\ threshold # -1
    /\ dcrnn.cl_decay_steps = 1
    /\ batches_seen = MaxThresholdArg
    /\ threshold < ThresholdOf(1, 0)
    /\ threshold * 10 < Scale

\* C7 (as stated): the threshold is decreasing in batches_seen, approaches 0
\* as batches_seen grows and approaches 1 as batches_seen goes to 0: at
\* batches_seen = 0 it is 1 up to the resolution 1 / Scale.
C7_ApproachesOne ==
    threshold # -1 =>
        /\ C7_DecreasingToZero
        /\ batches_seen = 0 => Scale - threshold <= 1
====
